---- MODULE Spec2Model ----
(***************************************************************************)
(* State Workforce Impact Ranking Engine of research-analyzer              *)
(* (src/src/services/stateRankingCalculator.ts).                           *)
(*                                                                         *)
(* JavaScript numbers are modelled as exact rationals [n, d] in lowest     *)
(* terms (d > 0); Math.round is floor(x + 1/2).  An optional field         *)
(* (`x?: T`) is the empty sequence << >> when absent and <<v>> when set.   *)
(***************************************************************************)
EXTENDS Integers, Sequences, FiniteSets, TLC

VARIABLES connections, policies, baselineData, rankings, gradeScore, gradeResult, pc,
          sortBy, sortedRankings, summary,
          apiKey, proxyIndex, fetchLog, lastError, body, searchResult

\* the arguments and the result of calculateStateRankings
rankingVars == <<connections, policies, baselineData, rankings>>

\* the argument and the result of getWorkforceImpactGrade
gradeVars == <<gradeScore, gradeResult>>

\* the key and the results of sortStateRankings and getRankingSummary
viewVars == <<sortBy, sortedRankings, summary>>

\* one call of searchLegiScanBills
searchVars == <<apiKey, proxyIndex, fetchLog, lastError, body, searchResult>>

vars == <<rankingVars, gradeVars, viewVars, searchVars, pc>>

----------------------------------------------------------------------------
(* Exact arithmetic standing for the JavaScript number type.               *)

Abs(x) == IF x < 0 THEN -x ELSE x

RECURSIVE Gcd(_, _)
Gcd(a, b) == IF b = 0 THEN a ELSE Gcd(b, a % b)

Q(num, den) ==
  LET g == Gcd(Abs(num), Abs(den))
      s == IF den < 0 THEN -1 ELSE 1
  IN  [n |-> (s * num) \div g, d |-> (s * den) \div g]

I(k) == [n |-> k, d |-> 1]

QAdd(a, b) == Q(a.n * b.d + b.n * a.d, a.d * b.d)
QSub(a, b) == Q(a.n * b.d - b.n * a.d, a.d * b.d)
QMul(a, b) == Q(a.n * b.n, a.d * b.d)
QDiv(a, b) == Q(a.n * b.d, a.d * b.n)
QLt(a, b) == a.n * b.d < b.n * a.d
QLe(a, b) == a.n * b.d <= b.n * a.d
QMin(a, b) == IF QLt(b, a) THEN b ELSE a
QMax(a, b) == IF QLt(a, b) THEN b ELSE a

\* Math.round: the nearest integer, halves towards +Infinity
MathRound(a) == (2 * a.n + a.d) \div (2 * a.d)

Min(a, b) == IF b < a THEN b ELSE a
Max(a, b) == IF a < b THEN b ELSE a

\* `x || dflt` on an optional integer: undefined and 0 are both falsy
OrDefault(opt, dflt) == IF opt = << >> \/ opt[1] = 0 THEN dflt ELSE opt[1]

----------------------------------------------------------------------------
(* getWorkforceImpactGrade                                                 *)

Grade(letter, color, description) ==
  [letter |-> letter, color |-> color, description |-> description]

\* every threshold exclusive
getWorkforceImpactGrade_exclusive(score) ==
  IF score > 90 THEN Grade("A+", "#28a745", "Excellent workforce policies")
  ELSE IF score > 85 THEN Grade("A", "#28a745", "Very strong workforce impact")
  ELSE IF score > 80 THEN Grade("A-", "#28a745", "Strong workforce support")
  ELSE IF score > 75 THEN Grade("B+", "#ffc107", "Good workforce policies")
  ELSE IF score > 70 THEN Grade("B", "#ffc107", "Adequate workforce support")
  ELSE IF score > 65 THEN Grade("B-", "#ffc107", "Mixed workforce impact")
  ELSE IF score > 60 THEN Grade("C+", "#fd7e14", "Limited workforce benefits")
  ELSE IF score > 55 THEN Grade("C", "#fd7e14", "Neutral workforce impact")
  ELSE IF score > 50 THEN Grade("C-", "#fd7e14", "Minimal workforce support")
  ELSE IF score > 40 THEN Grade("D", "#dc3545", "Concerning workforce policies")
  ELSE Grade("F", "#dc3545", "Critical workforce deficiencies")

getWorkforceImpactGrade(score) ==
  IF score >= 90 THEN Grade("A+", "#28a745", "Excellent workforce policies")
  ELSE IF score >= 85 THEN Grade("A", "#28a745", "Very strong workforce impact")
  ELSE IF score >= 80 THEN Grade("A-", "#28a745", "Strong workforce support")
  ELSE IF score >= 75 THEN Grade("B+", "#ffc107", "Good workforce policies")
  ELSE IF score >= 70 THEN Grade("B", "#ffc107", "Adequate workforce support")
  ELSE IF score >= 65 THEN Grade("B-", "#ffc107", "Mixed workforce impact")
  ELSE IF score >= 60 THEN Grade("C+", "#fd7e14", "Limited workforce benefits")
  ELSE IF score >= 55 THEN Grade("C", "#fd7e14", "Neutral workforce impact")
  ELSE IF score >= 50 THEN Grade("C-", "#fd7e14", "Minimal workforce support")
  ELSE IF score >= 40 THEN Grade("D", "#dc3545", "Concerning workforce policies")
  ELSE Grade("F", "#dc3545", "Critical workforce deficiencies")

----------------------------------------------------------------------------
(* String helpers for Policy.status: a status is a sequence of characters. *)

UpperCase == <<"A","B","C","D","E","F","G","H","I","J","K","L","M",
               "N","O","P","Q","R","S","T","U","V","W","X","Y","Z">>
LowerCase == <<"a","b","c","d","e","f","g","h","i","j","k","l","m",
               "n","o","p","q","r","s","t","u","v","w","x","y","z">>

toLowerCaseChar(c) ==
  IF \E i \in DOMAIN UpperCase : UpperCase[i] = c
  THEN LowerCase[CHOOSE i \in DOMAIN UpperCase : UpperCase[i] = c]
  ELSE c

toLowerCase(str) == [i \in DOMAIN str |-> toLowerCaseChar(str[i])]

includes(str, sub) ==
  \E i \in 1..(Len(str) - Len(sub) + 1) : SubSeq(str, i, i + Len(sub) - 1) = sub

ENACTED == <<"e","n","a","c","t","e","d">>
SIGNED == <<"s","i","g","n","e","d">>
EFFECTIVE == <<"e","f","f","e","c","t","i","v","e">>

\* the status is searched as written, without lower-casing it
isImplemented_caseSensitive(p) ==
  /\ p.status # << >>
  /\ \/ includes(p.status[1], ENACTED)
     \/ includes(p.status[1], SIGNED)
     \/ includes(p.status[1], EFFECTIVE)

\* p.status?.toLowerCase().includes(..) || ..  (undefined is falsy)
isImplemented(p) ==
  /\ p.status # << >>
  /\ \/ includes(toLowerCase(p.status[1]), ENACTED)
     \/ includes(toLowerCase(p.status[1]), SIGNED)
     \/ includes(toLowerCase(p.status[1]), EFFECTIVE)

----------------------------------------------------------------------------
(* Per-state accumulation (calculateStateRankings, the connections loop).  *)
(* stateScores is the object's value list in key insertion order.          *)

newAccumulator(state) ==
  [state |-> state,
   totalConnections |-> 0,
   positiveConnections |-> 0,
   negativeConnections |-> 0,
   totalStrengthScore |-> 0,
   workforceRelevanceTotal |-> 0,
   strongEvidence |-> 0,
   moderateEvidence |-> 0,
   weakEvidence |-> 0,
   policies |-> {},
   researchPapers |-> {}]

\* the strong tier starts above 8 instead of at 8
addConnection_strongAbove8(score, conn) ==
  LET evidenceScore == OrDefault(conn.evidenceQuality, 5)
  IN  [score EXCEPT
        !.totalConnections = @ + 1,
        !.totalStrengthScore = @ + conn.strengthScore,
        !.workforceRelevanceTotal = @ + OrDefault(conn.workforceRelevance, 5),
        !.positiveConnections = IF conn.connectionType = "POSITIVE" THEN @ + 1 ELSE @,
        !.negativeConnections = IF conn.connectionType = "NEGATIVE" THEN @ + 1 ELSE @,
        !.strongEvidence = IF evidenceScore > 8 THEN @ + 1 ELSE @,
        !.moderateEvidence = IF evidenceScore <= 8 /\ evidenceScore >= 5 THEN @ + 1 ELSE @,
        !.weakEvidence = IF evidenceScore < 5 THEN @ + 1 ELSE @,
        !.policies = @ \cup {conn.policyId},
        !.researchPapers = @ \cup {conn.paperId}]

addConnection(score, conn) ==
  LET evidenceScore == OrDefault(conn.evidenceQuality, 5)
  IN  [score EXCEPT
        !.totalConnections = @ + 1,
        !.totalStrengthScore = @ + conn.strengthScore,
        !.workforceRelevanceTotal = @ + OrDefault(conn.workforceRelevance, 5),
        !.positiveConnections = IF conn.connectionType = "POSITIVE" THEN @ + 1 ELSE @,
        !.negativeConnections = IF conn.connectionType = "NEGATIVE" THEN @ + 1 ELSE @,
        !.strongEvidence = IF evidenceScore >= 8 THEN @ + 1 ELSE @,
        !.moderateEvidence = IF evidenceScore < 8 /\ evidenceScore >= 5 THEN @ + 1 ELSE @,
        !.weakEvidence = IF evidenceScore < 5 THEN @ + 1 ELSE @,
        !.policies = @ \cup {conn.policyId},
        !.researchPapers = @ \cup {conn.paperId}]

hasState(stateScores, state) == \E i \in DOMAIN stateScores : stateScores[i].state = state

\* opens a new accumulator for every connection
accumulate_perConnection(stateScores, conn) ==
  Append(stateScores, addConnection(newAccumulator(conn.stateJurisdiction), conn))

\* one iteration of connections.forEach
accumulate(stateScores, conn) ==
  LET state == conn.stateJurisdiction
      created == IF hasState(stateScores, state)
                 THEN stateScores
                 ELSE Append(stateScores, newAccumulator(state))
  IN  [i \in DOMAIN created |->
        IF created[i].state = state THEN addConnection(created[i], conn) ELSE created[i]]

RECURSIVE aggregateByState(_)
aggregateByState(conns) ==
  IF conns = << >> THEN << >>
  ELSE accumulate(aggregateByState(SubSeq(conns, 1, Len(conns) - 1)), conns[Len(conns)])

\* the first record of a state is kept
buildBaselineLookup_firstWins(baselines) ==
  [s \in {baselines[i].stateName : i \in DOMAIN baselines} |->
     baselines[CHOOSE i \in DOMAIN baselines :
                 /\ baselines[i].stateName = s
                 /\ \A j \in DOMAIN baselines : baselines[j].stateName = s => i <= j]]

\* baselineLookup[baseline.stateName] = baseline, in list order (the last record wins)
buildBaselineLookup(baselines) ==
  [s \in {baselines[i].stateName : i \in DOMAIN baselines} |->
     baselines[CHOOSE i \in DOMAIN baselines :
                 /\ baselines[i].stateName = s
                 /\ \A j \in DOMAIN baselines : baselines[j].stateName = s => j <= i]]

\* baselineLookup[state]: << >> stands for undefined
lookupBaseline(baselineLookup, state) ==
  IF state \in DOMAIN baselineLookup THEN <<baselineLookup[state]>> ELSE << >>

----------------------------------------------------------------------------
(* calculateStateRankingFromScore, step by step.                           *)

policyWeight == Q(35, 100)
evidenceWeight == Q(15, 100)
populationWeight == Q(10, 100)
baselineWeight == QSub(I(1), QAdd(QAdd(policyWeight, evidenceWeight), populationWeight))

\* the quotient is truncated to an integer
averageOf_truncated(total, totalConnections) ==
  IF totalConnections > 0 THEN I(total \div totalConnections) ELSE I(0)

\* x / totalConnections when totalConnections > 0, else 0
averageOf(total, totalConnections) ==
  IF totalConnections > 0 THEN Q(total, totalConnections) ELSE I(0)

\* the factor 1.2 starts at an average strength of 7
evidenceQualityScoreOf_from7(score) ==
  LET avgStrength == averageOf(score.totalStrengthScore, score.totalConnections)
      baseEvidenceQuality ==
        Q(score.strongEvidence * 3 + score.moderateEvidence * 2 + score.weakEvidence * 1,
          Max(score.totalConnections, 1))
      researchQualityBonus == QMin(QMul(I(Cardinality(score.researchPapers)), Q(1, 10)), I(1))
      methodologyStrengthFactor ==
        IF QLe(I(7), avgStrength) THEN Q(12, 10)
        ELSE IF QLt(avgStrength, I(4)) THEN Q(8, 10)
        ELSE I(1)
  IN  QAdd(QMul(baseEvidenceQuality, methodologyStrengthFactor), researchQualityBonus)

evidenceQualityScoreOf(score) ==
  LET avgStrength == averageOf(score.totalStrengthScore, score.totalConnections)
      baseEvidenceQuality ==
        Q(score.strongEvidence * 3 + score.moderateEvidence * 2 + score.weakEvidence * 1,
          Max(score.totalConnections, 1))
      researchQualityBonus == QMin(QMul(I(Cardinality(score.researchPapers)), Q(1, 10)), I(1))
      methodologyStrengthFactor ==
        IF QLt(I(7), avgStrength) THEN Q(12, 10)
        ELSE IF QLt(avgStrength, I(4)) THEN Q(8, 10)
        ELSE I(1)
  IN  QAdd(QMul(baseEvidenceQuality, methodologyStrengthFactor), researchQualityBonus)

\* baseline?.baselineWorkforceScore || 50  (undefined and 0 are falsy)
baselineScoreOf(baseline) ==
  IF baseline = << >> \/ baseline[1].baselineWorkforceScore.n = 0
  THEN I(50)
  ELSE baseline[1].baselineWorkforceScore

\* every policy counts for every state
statePoliciesOf_all(pols, state) == pols

statePoliciesOf(pols, state) == SelectSeq(pols, LAMBDA p : p.jurisdiction = state)

RECURSIVE sumPopulation(_)
sumPopulation(pols) ==
  IF pols = << >> THEN 0
  ELSE sumPopulation(Tail(pols)) + OrDefault(Head(pols).estimatedPopulationAffected, 100000)

\* the population of the first policy stands for all of them
averagePopulationAffectedOf_first(statePolicies) ==
  IF Len(statePolicies) > 0
  THEN I(OrDefault(Head(statePolicies).estimatedPopulationAffected, 100000))
  ELSE I(100000)

averagePopulationAffectedOf(statePolicies) ==
  IF Len(statePolicies) > 0
  THEN Q(sumPopulation(statePolicies), Len(statePolicies))
  ELSE I(100000)

populationScaleFactorOf(statePolicies) ==
  QMin(QDiv(averagePopulationAffectedOf(statePolicies), I(500000)), I(2))

\* baseline?.physicianDensity && baseline.physicianDensity < 2.5 ? 1.15 : 1.0
shortageAreaBonusOf(baseline) ==
  IF /\ baseline # << >>
     /\ baseline[1].physicianDensity # << >>
     /\ baseline[1].physicianDensity[1].n # 0
     /\ QLt(baseline[1].physicianDensity[1], Q(25, 10))
  THEN Q(115, 100)
  ELSE I(1)

implementationRateOf(statePolicies) ==
  LET implementedPolicies == Len(SelectSeq(statePolicies, isImplemented))
      totalPolicies == IF Len(statePolicies) = 0 THEN 1 ELSE Len(statePolicies)
  IN  Q(implementedPolicies, totalPolicies)

implementationStatusMultiplierOf(statePolicies) ==
  QAdd(Q(7, 10), QMul(implementationRateOf(statePolicies), Q(6, 10)))

QClamp(x, lo, hi) == QMax(lo, QMin(x, hi))

\* the sum of the base and the bonuses is not clamped
policyImpactScoreOf_unclamped(score, statePolicies) ==
  IF score.totalConnections > 0
  THEN LET avgStrength == averageOf(score.totalStrengthScore, score.totalConnections)
           avgWorkforceRelevance ==
             averageOf(score.workforceRelevanceTotal, score.totalConnections)
           positiveRate == averageOf(score.positiveConnections, score.totalConnections)
           negativeRate == Q(score.negativeConnections, score.totalConnections)
           netPositiveRate == QSub(positiveRate, negativeRate)
           basePolicy == QAdd(I(50), QMul(netPositiveRate, I(25)))
           strengthBonus == QMul(QSub(avgStrength, I(5)), I(3))
           relevanceBonus == QMul(QSub(avgWorkforceRelevance, I(5)), I(3))
           evidenceBonus == QMul(QSub(evidenceQualityScoreOf(score), Q(15, 10)), I(5))
           implementationBonus ==
             QMul(QSub(implementationStatusMultiplierOf(statePolicies), I(1)), I(20))
           populationBonus == QMul(QSub(populationScaleFactorOf(statePolicies), I(1)), I(10))
       IN  QAdd(QAdd(QAdd(QAdd(QAdd(basePolicy, strengthBonus), relevanceBonus),
                          evidenceBonus), implementationBonus), populationBonus)
  ELSE I(50)

\* the unrounded policyImpactScore
policyImpactScoreOf(score, statePolicies) ==
  IF score.totalConnections > 0
  THEN LET avgStrength == averageOf(score.totalStrengthScore, score.totalConnections)
           avgWorkforceRelevance ==
             averageOf(score.workforceRelevanceTotal, score.totalConnections)
           positiveRate == averageOf(score.positiveConnections, score.totalConnections)
           negativeRate == Q(score.negativeConnections, score.totalConnections)
           netPositiveRate == QSub(positiveRate, negativeRate)
           basePolicy == QAdd(I(50), QMul(netPositiveRate, I(25)))
           strengthBonus == QMul(QSub(avgStrength, I(5)), I(3))
           relevanceBonus == QMul(QSub(avgWorkforceRelevance, I(5)), I(3))
           evidenceBonus == QMul(QSub(evidenceQualityScoreOf(score), Q(15, 10)), I(5))
           implementationBonus ==
             QMul(QSub(implementationStatusMultiplierOf(statePolicies), I(1)), I(20))
           populationBonus == QMul(QSub(populationScaleFactorOf(statePolicies), I(1)), I(10))
       IN  QClamp(QAdd(QAdd(QAdd(QAdd(QAdd(basePolicy, strengthBonus), relevanceBonus),
                                 evidenceBonus), implementationBonus), populationBonus),
                  I(0), I(100))
  ELSE I(50)

\* weighs the rounded policy impact score
combinedScoreOf_roundedPolicy(totalConnections, baselineScore, policyImpactScore, evidenceStrengthScore, populationImpactScore, shortageAreaBonus) ==
  IF totalConnections > 0
  THEN QMul(I(MathRound(QAdd(QAdd(QAdd(QMul(baselineScore, baselineWeight),
                                       QMul(I(MathRound(policyImpactScore)), policyWeight)),
                                  QMul(I(evidenceStrengthScore), evidenceWeight)),
                             QMul(I(populationImpactScore), populationWeight)))),
            shortageAreaBonus)
  ELSE baselineScore

combinedScoreOf(totalConnections, baselineScore, policyImpactScore, evidenceStrengthScore, populationImpactScore, shortageAreaBonus) ==
  IF totalConnections > 0
  THEN QMul(I(MathRound(QAdd(QAdd(QAdd(QMul(baselineScore, baselineWeight),
                                       QMul(policyImpactScore, policyWeight)),
                                  QMul(I(evidenceStrengthScore), evidenceWeight)),
                             QMul(I(populationImpactScore), populationWeight)))),
            shortageAreaBonus)
  ELSE baselineScore

workforceImpactScoreOf(combinedScore) == Max(0, Min(MathRound(combinedScore), 100))

\* six data points still count as limited
dataQualityFlagOf_limitedAt6(dataPointsCount, minDataPoints) ==
  IF dataPointsCount < minDataPoints THEN "INSUFFICIENT_DATA"
  ELSE IF dataPointsCount <= 6 THEN "LIMITED_DATA"
  ELSE "RELIABLE_DATA"

dataQualityFlagOf(dataPointsCount, minDataPoints) ==
  IF dataPointsCount < minDataPoints THEN "INSUFFICIENT_DATA"
  ELSE IF dataPointsCount < 6 THEN "LIMITED_DATA"
  ELSE "RELIABLE_DATA"

\* the ratio is not capped at 1
confidenceLevelOf_uncapped(dataPointsCount, minDataPoints) ==
  Q(dataPointsCount, minDataPoints)

\* Math.min(dataPointsCount / minDataPoints, 1.0)
confidenceLevelOf(dataPointsCount, minDataPoints) ==
  QMin(Q(dataPointsCount, minDataPoints), I(1))

\* Math.round((1 - confidenceLevel) * 15)
uncertaintyRangeOf(confidenceLevel) == MathRound(QMul(QSub(I(1), confidenceLevel), I(15)))

\* the lower end is taken above the score
scoreRangeLowOf_above(workforceImpactScore, uncertaintyRange) ==
  Max(0, workforceImpactScore + uncertaintyRange)

\* Math.max(0, workforceImpactScore - uncertaintyRange)
scoreRangeLowOf(workforceImpactScore, uncertaintyRange) ==
  Max(0, workforceImpactScore - uncertaintyRange)

\* Math.min(100, workforceImpactScore + uncertaintyRange)
scoreRangeHighOf(workforceImpactScore, uncertaintyRange) ==
  Min(100, workforceImpactScore + uncertaintyRange)

calculateStateRankingFromScore(score, pols, baselineLookup) ==
  LET avgStrength == averageOf(score.totalStrengthScore, score.totalConnections)
      avgWorkforceRelevance == averageOf(score.workforceRelevanceTotal, score.totalConnections)
      positiveRate == averageOf(score.positiveConnections, score.totalConnections)
      evidenceQualityScore == evidenceQualityScoreOf(score)
      baseline == lookupBaseline(baselineLookup, score.state)
      baselineScore == baselineScoreOf(baseline)
      statePolicies == statePoliciesOf(pols, score.state)
      averagePopulationAffected == averagePopulationAffectedOf(statePolicies)
      populationScaleFactor == populationScaleFactorOf(statePolicies)
      shortageAreaBonus == shortageAreaBonusOf(baseline)
      implementationRate == implementationRateOf(statePolicies)
      implementationStatusMultiplier == implementationStatusMultiplierOf(statePolicies)
      policyImpactScore == policyImpactScoreOf(score, statePolicies)
      policyEffectivenessScore == MathRound(QMul(policyImpactScore, implementationStatusMultiplier))
      evidenceStrengthScore == MathRound(QMul(evidenceQualityScore, I(20)))
      populationImpactScore == MathRound(QMul(populationScaleFactor, I(50)))
      combinedScore == combinedScoreOf(score.totalConnections, baselineScore, policyImpactScore,
                                       evidenceStrengthScore, populationImpactScore,
                                       shortageAreaBonus)
      workforceImpactScore == workforceImpactScoreOf(combinedScore)
      dataPointsCount == score.totalConnections + (IF baseline # << >> THEN 1 ELSE 0)
                         + Cardinality(score.researchPapers)
      minDataPoints == 3
      confidenceLevel == confidenceLevelOf(dataPointsCount, minDataPoints)
      uncertaintyRange == uncertaintyRangeOf(confidenceLevel)
  IN  [state |-> score.state,
       workforceImpactScore |-> workforceImpactScore,
       grade |-> getWorkforceImpactGrade(workforceImpactScore),
       totalConnections |-> score.totalConnections,
       positiveConnections |-> score.positiveConnections,
       negativeConnections |-> score.negativeConnections,
       averageStrength |-> avgStrength,
       averageWorkforceRelevance |-> avgWorkforceRelevance,
       positiveConnectionRate |-> positiveRate,
       evidenceQualityScore |-> evidenceQualityScore,
       strongEvidence |-> score.strongEvidence,
       moderateEvidence |-> score.moderateEvidence,
       weakEvidence |-> score.weakEvidence,
       policies |-> Cardinality(score.policies),
       researchPapers |-> Cardinality(score.researchPapers),
       baselineWorkforceScore |-> baselineScore,
       policyImpactScore |-> MathRound(policyImpactScore),
       hasBaselineData |-> baseline # << >>,
       policyEffectivenessScore |-> policyEffectivenessScore,
       evidenceStrengthScore |-> evidenceStrengthScore,
       populationImpactScore |-> populationImpactScore,
       workforceSupplyScore |-> baselineScore,
       implementationRate |-> MathRound(QMul(implementationRate, I(100))),
       implementationStatusMultiplier |-> implementationStatusMultiplier,
       populationScaleFactor |-> populationScaleFactor,
       shortageAreaBonus |-> shortageAreaBonus,
       averagePopulationAffected |-> averagePopulationAffected,
       confidenceLevel |-> MathRound(QMul(confidenceLevel, I(100))),
       uncertaintyRange |-> uncertaintyRange,
       dataQualityFlag |-> dataQualityFlagOf(dataPointsCount, minDataPoints),
       dataPointsCount |-> dataPointsCount,
       scoreRangeLow |-> scoreRangeLowOf(workforceImpactScore, uncertaintyRange),
       scoreRangeHigh |-> scoreRangeHighOf(workforceImpactScore, uncertaintyRange)]

\* Math.round(baseline.baselineWorkforceScore || 50)
baselineOnlyScore(baseline) ==
  MathRound(IF baseline.baselineWorkforceScore.n = 0 THEN I(50)
            ELSE baseline.baselineWorkforceScore)

\* the grade is looked up from the raw baseline score instead of the rounded score
createBaselineOnlyRanking_gradeOfRaw(baseline) ==
  LET score == baselineOnlyScore(baseline)
  IN  [state |-> baseline.stateName,
       workforceImpactScore |-> score,
       grade |-> getWorkforceImpactGrade(MathRound(baseline.baselineWorkforceScore)),
       totalConnections |-> 0,
       positiveConnections |-> 0,
       negativeConnections |-> 0,
       averageStrength |-> I(0),
       averageWorkforceRelevance |-> I(0),
       positiveConnectionRate |-> I(0),
       evidenceQualityScore |-> I(0),
       strongEvidence |-> 0,
       moderateEvidence |-> 0,
       weakEvidence |-> 0,
       policies |-> 0,
       researchPapers |-> 0,
       baselineWorkforceScore |-> baseline.baselineWorkforceScore,
       policyImpactScore |-> 0,
       hasBaselineData |-> TRUE]

createBaselineOnlyRanking(baseline) ==
  LET score == baselineOnlyScore(baseline)
  IN  [state |-> baseline.stateName,
       workforceImpactScore |-> score,
       grade |-> getWorkforceImpactGrade(score),
       totalConnections |-> 0,
       positiveConnections |-> 0,
       negativeConnections |-> 0,
       averageStrength |-> I(0),
       averageWorkforceRelevance |-> I(0),
       positiveConnectionRate |-> I(0),
       evidenceQualityScore |-> I(0),
       strongEvidence |-> 0,
       moderateEvidence |-> 0,
       weakEvidence |-> 0,
       policies |-> 0,
       researchPapers |-> 0,
       baselineWorkforceScore |-> baseline.baselineWorkforceScore,
       policyImpactScore |-> 0,
       hasBaselineData |-> TRUE]

----------------------------------------------------------------------------
(* calculateStateRankings: assembly and the final sort.                    *)

\* appends a baseline-only ranking without looking for the state
addBaselineOnly_always(ranks, baseline) == Append(ranks, createBaselineOnlyRanking(baseline))

\* one iteration of the second baselineData.forEach
addBaselineOnly(ranks, baseline) ==
  IF \E i \in DOMAIN ranks : ranks[i].state = baseline.stateName
  THEN ranks
  ELSE Append(ranks, createBaselineOnlyRanking(baseline))

RECURSIVE addBaselineOnlyAll(_, _)
addBaselineOnlyAll(ranks, baselines) ==
  IF baselines = << >> THEN ranks
  ELSE addBaselineOnlyAll(addBaselineOnly(ranks, Head(baselines)), Tail(baselines))

\* r also goes before the elements that compare equal to it
RECURSIVE insertByScore_beforeEqual(_, _)
insertByScore_beforeEqual(sorted, r) ==
  IF sorted = << >> THEN <<r>>
  ELSE IF r.workforceImpactScore >= Head(sorted).workforceImpactScore
       THEN <<r>> \o sorted
       ELSE <<Head(sorted)>> \o insertByScore_beforeEqual(Tail(sorted), r)

\* insert r after every element that does not compare greater than it:
\* Array.prototype.sort is stable, compare(a, b) = b.score - a.score
RECURSIVE insertByScore(_, _)
insertByScore(sorted, r) ==
  IF sorted = << >> THEN <<r>>
  ELSE IF r.workforceImpactScore > Head(sorted).workforceImpactScore
       THEN <<r>> \o sorted
       ELSE <<Head(sorted)>> \o insertByScore(Tail(sorted), r)

\* returns the list in construction order
sortByScore_unsorted(ranks) == ranks

RECURSIVE sortByScore(_)
sortByScore(ranks) ==
  IF ranks = << >> THEN << >>
  ELSE insertByScore(sortByScore(SubSeq(ranks, 1, Len(ranks) - 1)), ranks[Len(ranks)])

\* also opens an accumulator for every policy jurisdiction
RECURSIVE withPolicyStates(_, _)
withPolicyStates(stateScores, pols) ==
  IF pols = << >> THEN stateScores
  ELSE withPolicyStates(
         IF hasState(stateScores, Head(pols).jurisdiction) THEN stateScores
         ELSE Append(stateScores, newAccumulator(Head(pols).jurisdiction)),
         Tail(pols))

connectionRankings_policyStates(conns, pols, baselines) ==
  LET baselineLookup == buildBaselineLookup(baselines)
      stateScores == withPolicyStates(aggregateByState(conns), pols)
  IN  [i \in DOMAIN stateScores |->
         calculateStateRankingFromScore(stateScores[i], pols, baselineLookup)]

connectionRankings(conns, pols, baselines) ==
  LET baselineLookup == buildBaselineLookup(baselines)
      stateScores == aggregateByState(conns)
  IN  [i \in DOMAIN stateScores |->
         calculateStateRankingFromScore(stateScores[i], pols, baselineLookup)]

calculateStateRankings(conns, pols, baselines) ==
  sortByScore(addBaselineOnlyAll(connectionRankings(conns, pols, baselines), baselines))

----------------------------------------------------------------------------
(* sortStateRankings.  A state name is compared through its characters;    *)
(* String.prototype.localeCompare is the collation of the runtime's        *)
(* default locale: letters are compared alphabetically without regard to   *)
(* case first, and only for names equal up to case does the case decide,   *)
(* the lower-case letter sorting before its capital.                       *)

\* the characters of the state names that occur in the inputs
stateCharacters(state) ==
  CASE state = "TEXAS" -> <<"T","E","X","A","S">>
    [] state = "Texas" -> <<"T","e","x","a","s">>
    [] state = "OHIO" -> <<"O","H","I","O">>
    [] state = "IOWA" -> <<"I","O","W","A">>

isUpperCase(c) == \E i \in DOMAIN UpperCase : UpperCase[i] = c

\* the position of a letter in the alphabet
letterOf(c) == CHOOSE i \in DOMAIN UpperCase : UpperCase[i] = c \/ LowerCase[i] = c

\* the primary collation key: the letters, case set aside
primaryKey(str) == [i \in DOMAIN str |-> letterOf(str[i])]

\* the tertiary collation key: lower case before upper case
tertiaryKey(str) == [i \in DOMAIN str |-> IF isUpperCase(str[i]) THEN 1 ELSE 0]

\* lexicographic comparison of two key sequences: -1, 0 or 1
RECURSIVE compareKeys(_, _)
compareKeys(x, y) ==
  IF x = << >> THEN (IF y = << >> THEN 0 ELSE -1)
  ELSE IF y = << >> THEN 1
  ELSE IF Head(x) < Head(y) THEN -1
  ELSE IF Head(x) > Head(y) THEN 1
  ELSE compareKeys(Tail(x), Tail(y))

\* a.localeCompare(b)
localeCompare(a, b) ==
  LET primary == compareKeys(primaryKey(a), primaryKey(b))
  IN  IF primary # 0 THEN primary ELSE compareKeys(tertiaryKey(a), tertiaryKey(b))

\* 'alpha' puts the names in descending order
compare_alphaDescending(key, a, b) ==
  CASE key = "alpha" -> localeCompare(stateCharacters(b.state), stateCharacters(a.state))
    [] key = "connections" -> b.totalConnections - a.totalConnections
    [] key = "policies" -> b.policies - a.policies
    [] OTHER -> b.workforceImpactScore - a.workforceImpactScore

\* the compare function the switch selects for a key
compare(key, a, b) ==
  CASE key = "alpha" -> localeCompare(stateCharacters(a.state), stateCharacters(b.state))
    [] key = "connections" -> b.totalConnections - a.totalConnections
    [] key = "policies" -> b.policies - a.policies
    [] OTHER -> b.workforceImpactScore - a.workforceImpactScore

\* Array.prototype.sort is stable: r, which came later, goes before the first
\* element that compares greater than it
RECURSIVE insertByKey(_, _, _)
insertByKey(sorted, r, key) ==
  IF sorted = << >> THEN <<r>>
  ELSE IF compare(key, Head(sorted), r) > 0
       THEN <<r>> \o sorted
       ELSE <<Head(sorted)>> \o insertByKey(Tail(sorted), r, key)

RECURSIVE sortByKey(_, _)
sortByKey(ranks, key) ==
  IF ranks = << >> THEN << >>
  ELSE insertByKey(sortByKey(SubSeq(ranks, 1, Len(ranks) - 1), key), ranks[Len(ranks)], key)

\* sortBy is << >> when the caller passes no key: the parameter defaults to 'score'
sortStateRankings(ranks, sortByArg) ==
  sortByKey(ranks, IF sortByArg = << >> THEN "score" ELSE sortByArg[1])

----------------------------------------------------------------------------
(* getRankingSummary.                                                      *)

RECURSIVE sumOf(_)
sumOf(scores) == IF scores = << >> THEN 0 ELSE Head(scores) + sumOf(Tail(scores))

\* Math.max(...scores) and Math.min(...scores) of a non-empty list
maxOf(scores) ==
  CHOOSE m \in {scores[i] : i \in DOMAIN scores} : \A i \in DOMAIN scores : scores[i] <= m
minOf(scores) ==
  CHOOSE m \in {scores[i] : i \in DOMAIN scores} : \A i \in DOMAIN scores : m <= scores[i]

\* gradeDistribution[letter] = (gradeDistribution[letter] || 0) + 1 for every ranking
gradeDistributionOf(ranks) ==
  [letter \in {ranks[i].grade.letter : i \in DOMAIN ranks} |->
     Cardinality({i \in DOMAIN ranks : ranks[i].grade.letter = letter})]

\* statesWithData counts every ranking
getRankingSummary_countsAll(ranks) ==
  IF Len(ranks) = 0
  THEN [totalStates |-> 0, averageScore |-> 0, highestScore |-> 0, lowestScore |-> 0,
        statesWithData |-> 0, gradeDistribution |-> << >>]
  ELSE LET scores == [i \in DOMAIN ranks |-> ranks[i].workforceImpactScore]
       IN  [totalStates |-> Len(ranks),
            averageScore |-> MathRound(Q(sumOf(scores), Len(scores))),
            highestScore |-> maxOf(scores),
            lowestScore |-> minOf(scores),
            statesWithData |-> Len(ranks),
            gradeDistribution |-> gradeDistributionOf(ranks)]

\* the empty object {} is the function with the empty domain, << >>
getRankingSummary(ranks) ==
  IF Len(ranks) = 0
  THEN [totalStates |-> 0, averageScore |-> 0, highestScore |-> 0, lowestScore |-> 0,
        statesWithData |-> 0, gradeDistribution |-> << >>]
  ELSE LET scores == [i \in DOMAIN ranks |-> ranks[i].workforceImpactScore]
       IN  [totalStates |-> Len(ranks),
            averageScore |-> MathRound(Q(sumOf(scores), Len(scores))),
            highestScore |-> maxOf(scores),
            lowestScore |-> minOf(scores),
            statesWithData |-> Len(SelectSeq(ranks, LAMBDA r : r.totalConnections > 0)),
            gradeDistribution |-> gradeDistributionOf(ranks)]

----------------------------------------------------------------------------
(* The LegiScan search (searchLegiScanBills, fetchWithCorsProxy).  A       *)
(* message is a sequence of characters.                                    *)

\* the proxies of CORS_PROXIES, by host
CORS_PROXIES == <<"api.allorigins.win", "cors-anywhere.herokuapp.com", "corsproxy.io">>

KEY_REQUIRED ==
  <<"L","e","g","i","S","c","a","n"," ","A","P","I"," ","k","e","y"," ","r",
    "e","q","u","i","r","e","d","."," ","P","l","e","a","s","e"," ","a","d",
    "d"," ","i","t"," ","t","o"," ","A","P","I"," ","K","e","y","s"," ","s",
    "e","c","t","i","o","n",".">>

API_ERROR_PREFIX ==
  <<"L","e","g","i","S","c","a","n"," ","A","P","I"," ","e","r","r","o","r",
    ":"," ">>

UNKNOWN_API_ERROR ==
  <<"U","n","k","n","o","w","n"," ","A","P","I"," ","e","r","r","o","r">>

HTTP_PREFIX ==
  <<"H","T","T","P"," ">>

\* String(response.status)
statusDigits(status) ==
  CASE status = 200 -> <<"2","0","0">>
    [] status = 403 -> <<"4","0","3">>
    [] status = 500 -> <<"5","0","0">>

\* new Error(`HTTP ${response.status}`).message
httpError(status) == HTTP_PREFIX \o statusDigits(status)

corsIndicators ==
  <<
    <<"C","O","R","S">>,
    <<"F","a","i","l","e","d"," ","t","o"," ","f","e","t","c","h">>,
    <<"N","e","t","w","o","r","k","E","r","r","o","r">>,
    <<"N","e","t","w","o","r","k"," ","e","r","r","o","r">>,
    <<"4","0","3">>,
    <<"A","l","l"," ","C","O","R","S"," ","p","r","o","x","i","e","s"," ",
      "f","a","i","l","e","d">>,
    <<"A","b","o","r","t","E","r","r","o","r">>,
    <<"t","i","m","e","o","u","t">>
  >>

isCorsOrNetworkError(errorMessage) ==
  \E k \in DOMAIN corsIndicators :
    includes(toLowerCase(errorMessage), toLowerCase(corsIndicators[k]))

Resolved(bills) == [kind |-> "resolved", bills |-> bills]
Rejected(message) == [kind |-> "rejected", message |-> message]

\* the catch block of searchLegiScanBills: an empty list for a message that looks
\* like a network or CORS failure, the error itself otherwise
catchError(message) ==
  IF isCorsOrNetworkError(message) THEN Resolved(<< >>) ELSE Rejected(message)

\* an item of searchresult is a bill when it has a bill_id
isValidBill(item) == item.bill_id # << >>

mapToBill(item) == [billId |-> item.bill_id[1], billNumber |-> item.bill_number]

parseSearchResults(searchresult) ==
  LET valid == SelectSeq(searchresult, isValidBill)
  IN  [i \in DOMAIN valid |-> mapToBill(valid[i])]

\* `LegiScan API error: ${data.alert?.message || 'Unknown API error'}`
apiErrorMessage(data) ==
  API_ERROR_PREFIX \o (IF data.alert = << >> \/ data.alert[1] = << >>
                       THEN UNKNOWN_API_ERROR
                       ELSE data.alert[1])

\* what a fetch can come to: a response (ok for 200), or a rejection whose message
\* is the runtime's text for a failed request: "Network error" (the test's mock),
\* "Failed to fetch" (Chromium), "Load failed" (WebKit)
Response(status) == [kind |-> "response", ok |-> status = 200, status |-> status]
FetchError(message) == [kind |-> "error", message |-> message]

NETWORK_ERROR ==
  <<"N","e","t","w","o","r","k"," ","e","r","r","o","r">>

FAILED_TO_FETCH ==
  <<"F","a","i","l","e","d"," ","t","o"," ","f","e","t","c","h">>

LOAD_FAILED ==
  <<"L","o","a","d"," ","f","a","i","l","e","d">>

FetchReplies ==
  {Response(200), Response(403), Response(500),
   FetchError(NETWORK_ERROR), FetchError(FAILED_TO_FETCH), FetchError(LOAD_FAILED)}

INVALID_API_KEY ==
  <<"I","n","v","a","l","i","d"," ","A","P","I"," ","k","e","y">>

REQUEST_TIMEOUT ==
  <<"R","e","q","u","e","s","t"," ","t","i","m","e","o","u","t">>

\* the bodies response.json() can yield: results (none, a bill, an item without
\* bill_id), or an error with or without an alert message
Bodies ==
  {[status |-> "OK", searchresult |-> r, alert |-> << >>] :
     r \in {<< >>, <<[bill_id |-> <<"12345">>, bill_number |-> "HB 123"]>>,
            <<[bill_id |-> << >>, bill_number |-> "summary"]>>}}
  \cup {[status |-> "ERROR", searchresult |-> << >>, alert |-> a] :
          a \in {<< >>, <<INVALID_API_KEY>>, <<REQUEST_TIMEOUT>>}}

\* the message of a failed request: the rejection's, or `HTTP ${status}`
failureOf(reply) == IF reply.kind = "error" THEN reply.message ELSE httpError(reply.status)

succeeded(reply) == reply.kind = "response" /\ reply.ok

----------------------------------------------------------------------------
(* Inputs.                                                                 *)

MaxConnections == 2
MaxPolicies == 1
MaxBaselines == 2

SeqsUpTo(S, k) == UNION {[1..m -> S] : m \in 0..k}

Connection(state, type, strength, evidence, relevance, policyId, paperId) ==
  [stateJurisdiction |-> state, connectionType |-> type, strengthScore |-> strength,
   evidenceQuality |-> evidence, workforceRelevance |-> relevance,
   policyId |-> policyId, paperId |-> paperId]

Policy(jurisdiction, status, population) ==
  [jurisdiction |-> jurisdiction, status |-> status,
   estimatedPopulationAffected |-> population]

Baseline(stateName, score, density) ==
  [stateName |-> stateName, baselineWorkforceScore |-> score, physicianDensity |-> density]

ConnectionTypes == {"POSITIVE", "NEGATIVE", "NEUTRAL", "MIXED"}

\* connections of the scoring runs: two states, both polarities (each citing its own
\* paper), weak and strong ratings
ScoreConnections ==
  {Connection("TEXAS", t[1], k, <<k>>, <<k>>, "p1", t[2]) :
     t \in {<<"POSITIVE", "paper1">>, <<"NEGATIVE", "paper2">>}, k \in {2, 9}}
  \cup {Connection("OHIO", "POSITIVE", 9, <<9>>, <<9>>, "p2", "paper2")}

\* "Signed", no status, and a pending bill
ScorePolicies ==
  {Policy("TEXAS", <<<<"S","i","g","n","e","d">>>>, <<2000000>>),
   Policy("TEXAS", << >>, << >>)}

\* TEXAS: score 0, score 100 in a shortage area (density 2.1), score 120 (density 3.5);
\* OHIO: score 72.5 in a shortage area
ScoreBaselines ==
  {Baseline("TEXAS", I(0), << >>),
   Baseline("TEXAS", I(100), <<Q(21, 10)>>),
   Baseline("TEXAS", I(120), <<Q(35, 10)>>),
   Baseline("OHIO", Q(145, 2), <<Q(21, 10)>>)}

\* connections of the counting runs: every polarity in two spellings of a state,
\* and every evidence tier boundary with and without the optional ratings
CountConnections ==
  {Connection(s, t, 5, <<5>>, <<7>>, "p1", "paper1") :
     s \in {"TEXAS", "Texas"}, t \in ConnectionTypes}
  \cup {Connection("TEXAS", "NEUTRAL", 5, e, w, "p2", "paper1") :
          e \in {<< >>, <<4>>, <<5>>, <<7>>, <<8>>}, w \in {<< >>, <<7>>}}

CountBaselines == {Baseline("TEXAS", I(60), << >>)}

GradeMargin == 5

GradeScores == (0 - GradeMargin)..(100 + GradeMargin)

\* no list has been sorted or summarised
NoView == sortBy = << >> /\ sortedRankings = << >> /\ summary = << >>

\* no search has been started
NoSearch ==
  /\ apiKey = ""
  /\ proxyIndex = 0
  /\ fetchLog = << >>
  /\ lastError = << >>
  /\ body = << >>
  /\ searchResult = << >>

Init ==
  /\ connections \in SeqsUpTo(ScoreConnections, MaxConnections)
  /\ policies \in SeqsUpTo(ScorePolicies, MaxPolicies)
  /\ baselineData \in SeqsUpTo(ScoreBaselines, MaxBaselines)
  /\ rankings = << >>
  /\ gradeScore = 0
  /\ gradeResult = << >>
  /\ NoView
  /\ NoSearch
  /\ pc = "input"

\* the caller invokes calculateStateRankings(connections, policies, baselineData)
Calculate ==
  /\ pc = "input"
  /\ rankings' = calculateStateRankings(connections, policies, baselineData)
  /\ pc' = "ranked"
  /\ UNCHANGED <<connections, policies, baselineData, gradeVars, viewVars, searchVars>>

Next == Calculate

Spec == Init /\ [][Next]_vars

\* the counting runs: the same operation over CountConnections
InitCounts ==
  /\ connections \in SeqsUpTo(CountConnections, MaxConnections)
  /\ policies = << >>
  /\ baselineData \in SeqsUpTo(CountBaselines, MaxBaselines)
  /\ rankings = << >>
  /\ gradeScore = 0
  /\ gradeResult = << >>
  /\ NoView
  /\ NoSearch
  /\ pc = "input"

SpecCounts == InitCounts /\ [][Next]_vars

\* the grade classifier alone, over every score around [0, 100]
InitGrade ==
  /\ connections = << >>
  /\ policies = << >>
  /\ baselineData = << >>
  /\ rankings = << >>
  /\ gradeScore \in GradeScores
  /\ gradeResult = << >>
  /\ NoView
  /\ NoSearch
  /\ pc = "input"

\* the caller invokes getWorkforceImpactGrade(gradeScore)
Classify ==
  /\ pc = "input"
  /\ gradeResult' = <<getWorkforceImpactGrade(gradeScore)>>
  /\ pc' = "graded"
  /\ UNCHANGED <<rankingVars, gradeScore, viewVars, searchVars>>

NextGrade == Classify

SpecGrade == InitGrade /\ [][NextGrade]_vars

\* the inputs of the views: one connection per spelling of a state, two policies for
\* one state, and baseline records that tie with each other and with a ranked state
\* (54 is the score of a TEXAS connection without baseline); OHIO has a physician
\* density of 0, TEXAS one of 2.1
ViewConnections ==
  {Connection(st, "POSITIVE", 7, <<7>>, <<7>>, "p1", "paper1") : st \in {"TEXAS", "Texas"}}
  \cup {Connection("OHIO", "NEGATIVE", 3, <<3>>, <<3>>, pid, "paper2") : pid \in {"p2", "p3"}}

ViewBaselines ==
  {Baseline("IOWA", I(54), << >>), Baseline("OHIO", I(54), <<I(0)>>),
   Baseline("TEXAS", I(85), <<Q(21, 10)>>)}

SortKeys == {"score", "alpha", "connections", "policies"}

InitView ==
  /\ connections \in SeqsUpTo(ViewConnections, MaxConnections)
  /\ policies = << >>
  /\ baselineData \in SeqsUpTo(ViewBaselines, MaxBaselines)
  /\ rankings = << >>
  /\ gradeScore = 0
  /\ gradeResult = << >>
  /\ NoView
  /\ NoSearch
  /\ pc = "input"

\* the sort runs on the array it was handed
argumentAfterSort_inPlace(ranks, sortByArg) ==
  sortByKey(ranks, IF sortByArg = << >> THEN "score" ELSE sortByArg[1])

\* const sorted = [...rankings]: the sort runs on a copy and the array handed in keeps
\* its elements and their order
argumentAfterSort(ranks, sortByArg) == ranks

\* the hook sorts the calculated rankings by filters.sortBy, which may be undefined
Sort ==
  /\ pc = "ranked"
  /\ \E key \in {<< >>} \cup {<<k>> : k \in SortKeys} :
       /\ sortBy' = key
       /\ sortedRankings' = sortStateRankings(rankings, key)
       /\ rankings' = argumentAfterSort(rankings, key)
  /\ pc' = "sorted"
  /\ UNCHANGED <<connections, policies, baselineData, gradeVars, summary, searchVars>>

\* the hook's getSummary
Summarize ==
  /\ pc = "ranked"
  /\ summary' = <<getRankingSummary(rankings)>>
  /\ pc' = "summarized"
  /\ UNCHANGED <<rankingVars, gradeVars, sortBy, sortedRankings, searchVars>>

NextView == Calculate \/ Sort \/ Summarize

SpecView == InitView /\ [][NextView]_vars

\* the policy runs: a state rated at the top and at the bottom of every scale, a second
\* spelling of it, and policies in every status, with and without a population
MaxStatePolicies == 2

PolicyConnections ==
  {Connection("TEXAS", "POSITIVE", 10, <<10>>, <<10>>, "p1", "paper1"),
   Connection("TEXAS", "NEGATIVE", 1, <<1>>, <<1>>, "p2", "paper2"),
   Connection("Texas", "POSITIVE", 5, <<5>>, <<5>>, "p1", "paper1")}

StatusPolicies ==
  {Policy("TEXAS", <<<<"E","N","A","C","T","E","D">>>>, <<2000000>>),
   Policy("TEXAS", <<<<"S","i","g","n","e","d">>>>, << >>),
   Policy("TEXAS", <<<<"I","n","t","r","o","d","u","c","e","d">>>>, <<0>>),
   Policy("TEXAS", << >>, <<50000>>),
   Policy("Texas", <<<<"E","f","f","e","c","t","i","v","e">>>>, <<2000000>>)}

InitPolicy ==
  /\ connections \in SeqsUpTo(PolicyConnections, MaxConnections)
  /\ policies \in SeqsUpTo(StatusPolicies, MaxStatePolicies)
  /\ baselineData = << >>
  /\ rankings = << >>
  /\ gradeScore = 0
  /\ gradeResult = << >>
  /\ NoView
  /\ NoSearch
  /\ pc = "input"

SpecPolicy == InitPolicy /\ [][Next]_vars

\* the data runs: up to three connections of one state, at the boundaries of the
\* methodology factor (strength 7 and 4) and beyond them, citing three papers, with
\* or without a baseline record
MaxDataConnections == 3

DataConnections ==
  {Connection("TEXAS", "POSITIVE", 7, <<8>>, <<7>>, "p1", "paper1"),
   Connection("TEXAS", "NEGATIVE", 4, <<4>>, <<4>>, "p1", "paper2"),
   Connection("TEXAS", "POSITIVE", 10, <<9>>, <<9>>, "p2", "paper3"),
   Connection("TEXAS", "NEUTRAL", 1, <<2>>, <<3>>, "p2", "paper1")}

DataBaselines == {Baseline("TEXAS", I(60), << >>)}

InitData ==
  /\ connections \in SeqsUpTo(DataConnections, MaxDataConnections)
  /\ policies = << >>
  /\ baselineData \in {<< >>} \cup {<<b>> : b \in DataBaselines}
  /\ rankings = << >>
  /\ gradeScore = 0
  /\ gradeResult = << >>
  /\ NoView
  /\ NoSearch
  /\ pc = "input"

SpecData == InitData /\ [][Next]_vars

\* the two-state runs: connections, policies and baseline records of TEXAS and of
\* OHIO side by side, the two states sharing a policy id and a paper, each state
\* with two baseline records that differ in score and in shortage status
NeighbourConnections ==
  {Connection("TEXAS", "POSITIVE", 9, <<9>>, <<8>>, "p1", "paper1"),
   Connection("TEXAS", "NEGATIVE", 2, <<3>>, <<4>>, "p2", "paper2"),
   Connection("OHIO", "POSITIVE", 6, <<6>>, <<6>>, "p1", "paper1")}

NeighbourPolicies ==
  {Policy("TEXAS", <<<<"E","n","a","c","t","e","d">>>>, <<2000000>>),
   Policy("OHIO", <<<<"I","n","t","r","o","d","u","c","e","d">>>>, <<50000>>)}

NeighbourBaselines ==
  {Baseline("TEXAS", I(80), <<Q(21, 10)>>),
   Baseline("TEXAS", I(30), <<I(3)>>),
   Baseline("OHIO", I(40), << >>),
   Baseline("OHIO", I(65), <<I(2)>>)}

InitNeighbours ==
  /\ connections \in SeqsUpTo(NeighbourConnections, MaxConnections)
  /\ policies \in SeqsUpTo(NeighbourPolicies, MaxPolicies)
  /\ baselineData \in SeqsUpTo(NeighbourBaselines, MaxBaselines)
  /\ rankings = << >>
  /\ gradeScore = 0
  /\ gradeResult = << >>
  /\ NoView
  /\ NoSearch
  /\ pc = "input"

SpecNeighbours == InitNeighbours /\ [][Next]_vars

\* one call searchLegiScanBills(apiKey, state), the key empty or not
InitSearch ==
  /\ connections = << >>
  /\ policies = << >>
  /\ baselineData = << >>
  /\ rankings = << >>
  /\ gradeScore = 0
  /\ gradeResult = << >>
  /\ NoView
  /\ apiKey \in {"", "test-key"}
  /\ proxyIndex = 0
  /\ fetchLog = << >>
  /\ lastError = << >>
  /\ body = << >>
  /\ searchResult = << >>
  /\ pc = "search"

\* the entry of searchLegiScanBills: the key check, before the try block
Search ==
  /\ pc = "search"
  /\ IF apiKey = ""
     THEN searchResult' = <<Rejected(KEY_REQUIRED)>> /\ pc' = "settled"
     ELSE searchResult' = searchResult /\ pc' = "direct"
  /\ UNCHANGED <<rankingVars, gradeVars, viewVars, apiKey, proxyIndex, fetchLog, lastError, body>>

\* fetchWithCorsProxy, the direct call: an ok response is returned, anything else
\* is caught and the proxies are tried
DirectFetch ==
  /\ pc = "direct"
  /\ \E reply \in FetchReplies :
       /\ fetchLog' = Append(fetchLog, [endpoint |-> "api.legiscan.com", reply |-> reply])
       /\ IF succeeded(reply)
          THEN pc' = "json" /\ proxyIndex' = proxyIndex
          ELSE pc' = "proxy" /\ proxyIndex' = 1
  /\ UNCHANGED <<rankingVars, gradeVars, viewVars, apiKey, lastError, body, searchResult>>

\* one iteration of the proxy loop; after the last proxy has failed lastError is
\* thrown and caught by searchLegiScanBills
ProxyFetch ==
  /\ pc = "proxy"
  /\ \E reply \in FetchReplies :
       /\ fetchLog' = Append(fetchLog, [endpoint |-> CORS_PROXIES[proxyIndex], reply |-> reply])
       /\ IF succeeded(reply)
          THEN /\ pc' = "json"
               /\ UNCHANGED <<proxyIndex, lastError, searchResult>>
          ELSE /\ lastError' = <<failureOf(reply)>>
               /\ IF proxyIndex < Len(CORS_PROXIES)
                  THEN /\ proxyIndex' = proxyIndex + 1
                       /\ pc' = "proxy"
                       /\ searchResult' = searchResult
                  ELSE /\ proxyIndex' = proxyIndex
                       /\ pc' = "settled"
                       /\ searchResult' = <<catchError(failureOf(reply))>>
  /\ UNCHANGED <<rankingVars, gradeVars, viewVars, apiKey, body>>

\* response.json() and what follows it in the try block
ReadBody ==
  /\ pc = "json"
  /\ \E data \in Bodies :
       /\ body' = <<data>>
       /\ searchResult' = IF data.status = "ERROR"
                          THEN <<catchError(apiErrorMessage(data))>>
                          ELSE <<Resolved(parseSearchResults(data.searchresult))>>
  /\ pc' = "settled"
  /\ UNCHANGED <<rankingVars, gradeVars, viewVars, apiKey, proxyIndex, fetchLog, lastError>>

NextSearch == Search \/ DirectFetch \/ ProxyFetch \/ ReadBody

SpecSearch == InitSearch /\ [][NextSearch]_vars

----------------------------------------------------------------------------
(* Properties.                                                             *)

Ranked == pc = "ranked"

connectionStates == {connections[i].stateJurisdiction : i \in DOMAIN connections}
baselineStates == {baselineData[i].stateName : i \in DOMAIN baselineData}

rankingsOf(state) == {i \in DOMAIN rankings : rankings[i].state = state}

\* C1: every workforceImpactScore returned by calculateStateRankings is an integer in
\* [0, 100], for connection-based and for baseline-only rankings alike.
C1_ScoreBounds ==
  Ranked => \A i \in DOMAIN rankings : rankings[i].workforceImpactScore \in 0..100

\* C2: a state present only in baseline data, with a baselineWorkforceScore in 0..100,
\* yields exactly one ranking, with totalConnections = 0, hasBaselineData = true and
\* workforceImpactScore = round(baselineWorkforceScore).
C2_BaselineFallback ==
  Ranked =>
    \A s \in baselineStates \ connectionStates :
      /\ Cardinality(rankingsOf(s)) = 1
      /\ \A i \in rankingsOf(s) :
           /\ rankings[i].totalConnections = 0
           /\ rankings[i].hasBaselineData
           /\ (QLe(I(0), rankings[i].baselineWorkforceScore)
               /\ QLe(rankings[i].baselineWorkforceScore, I(100)))
              => rankings[i].workforceImpactScore
                   = MathRound(rankings[i].baselineWorkforceScore)

\* the threshold table of the grade classifier, highest first
GradeTable ==
  <<<<90, "A+">>, <<85, "A">>, <<80, "A-">>, <<75, "B+">>, <<70, "B">>, <<65, "B-">>,
    <<60, "C+">>, <<55, "C">>, <<50, "C-">>, <<40, "D">>>>

tableLetter(score) ==
  IF \E k \in DOMAIN GradeTable : score >= GradeTable[k][1]
  THEN GradeTable[CHOOSE k \in DOMAIN GradeTable :
                    /\ score >= GradeTable[k][1]
                    /\ \A j \in 1..(k - 1) : score < GradeTable[j][1]][2]
  ELSE "F"

\* green #28a745, yellow #ffc107, orange #fd7e14, red #dc3545
tableColor(letter) ==
  IF letter \in {"A+", "A", "A-"} THEN "#28a745"
  ELSE IF letter \in {"B+", "B", "B-"} THEN "#ffc107"
  ELSE IF letter \in {"C+", "C", "C-"} THEN "#fd7e14"
  ELSE "#dc3545"

\* C3: getWorkforceImpactGrade is total; its letter is that of the first threshold
\* from the top that the score reaches (inclusive), F below 40; its color is green
\* for the A grades, yellow for B, orange for C and red for D and F.
C3_GradeTable ==
  pc = "graded" =>
    /\ Len(gradeResult) = 1
    /\ gradeResult[1].letter = tableLetter(gradeScore)
    /\ gradeResult[1].color = tableColor(gradeResult[1].letter)

\* a boundary score has been classified: 90 is A+
C3_Witness ==
  pc = "graded" /\ gradeScore = 90 /\ gradeResult[1].letter = "A+"

\* C4: every returned ranking's grade is getWorkforceImpactGrade of that ranking's
\* own workforceImpactScore.
C4_GradeConsistency ==
  Ranked =>
    \A i \in DOMAIN rankings :
      /\ rankings[i].grade.letter = tableLetter(rankings[i].workforceImpactScore)
      /\ rankings[i].grade = getWorkforceImpactGrade(rankings[i].workforceImpactScore)

\* a connection-based and a baseline-only ranking, with different grades
C4_Witness ==
  /\ Ranked
  /\ \E i, j \in DOMAIN rankings :
       /\ rankings[i].totalConnections > 0
       /\ rankings[j].totalConnections = 0
       /\ rankings[i].grade.letter # rankings[j].grade.letter

\* C5: every distinct non-empty stateJurisdiction of the connections list yields
\* exactly one ranking whose state is that exact string, however many connections
\* share it; the connection-based rankings are as many as the distinct values.
C5_OneRankingPerState ==
  Ranked =>
    /\ \A s \in connectionStates : s # "" => Cardinality(rankingsOf(s)) = 1
    /\ Cardinality({i \in DOMAIN rankings : rankings[i].totalConnections > 0})
         = Cardinality(connectionStates)

\* two connections share one state, and that state has one ranking
C5_Witness ==
  /\ Ranked
  /\ \E i, j \in DOMAIN connections :
       /\ i # j
       /\ connections[i].stateJurisdiction = connections[j].stateJurisdiction
       /\ Cardinality(rankingsOf(connections[i].stateJurisdiction)) = 1

\* C6: the returned list never holds two entries with the same state; a state with
\* connections and a baseline record appears once, scored by the connection path
\* (hasBaselineData = true, totalConnections > 0).
C6_NoDuplicateStates ==
  Ranked =>
    /\ \A i, j \in DOMAIN rankings : rankings[i].state = rankings[j].state => i = j
    /\ \A s \in connectionStates \cap baselineStates :
         \A i \in rankingsOf(s) :
           rankings[i].hasBaselineData /\ rankings[i].totalConnections > 0

\* a state with a connection and two baseline records is ranked
C6_Witness ==
  /\ Ranked
  /\ \E a, b \in DOMAIN baselineData :
       /\ a # b
       /\ baselineData[a].stateName = baselineData[b].stateName
       /\ baselineData[a].stateName \in connectionStates
       /\ Cardinality(rankingsOf(baselineData[a].stateName)) = 1

\* C7: the returned list is in non-increasing order of workforceImpactScore.
C7_SortedDescending ==
  Ranked =>
    \A i \in 1..(Len(rankings) - 1) :
      rankings[i].workforceImpactScore >= rankings[i + 1].workforceImpactScore

\* the sort has moved a ranking: the construction order was not descending
C7_Witness ==
  /\ Ranked
  /\ Len(rankings) >= 2
  /\ rankings[1].workforceImpactScore > rankings[Len(rankings)].workforceImpactScore
  /\ rankings # addBaselineOnlyAll(connectionRankings(connections, policies, baselineData),
                                   baselineData)

\* C8: with empty connections and empty baseline data the result is the empty
\* list, whatever the policies list holds.
C8_PoliciesAloneRankNothing ==
  (Ranked /\ connections = << >> /\ baselineData = << >>) => rankings = << >>

\* the call was made with a policy and nothing else
C8_Witness ==
  /\ Ranked
  /\ connections = << >>
  /\ baselineData = << >>
  /\ policies # << >>
  /\ rankings = << >>

\* the accumulator of a state that has connections
accumulatorOf(state) ==
  LET stateScores == aggregateByState(connections)
  IN  stateScores[CHOOSE k \in DOMAIN stateScores : stateScores[k].state = state]

\* the unrounded, clamped policy impact score of a ranked state
policyImpactOf(state) ==
  policyImpactScoreOf(accumulatorOf(state), statePoliciesOf(policies, state))

\* round(0.40*baseline + 0.35*policy + 0.15*evidence + 0.10*population), for the
\* ranking r and the unrounded policy impact score p
weightedSumOf(r, p) ==
  LET b == r.baselineWorkforceScore
  IN  MathRound(Q(40 * b.n * p.d + 35 * p.n * b.d
                    + (15 * r.evidenceStrengthScore + 10 * r.populationImpactScore) * b.d * p.d,
                  100 * b.d * p.d))

\* C9: for a state with at least one connection the final score is
\* clamp(round(round(0.40*baselineScore + 0.35*policyImpactScore
\* + 0.15*evidenceStrengthScore + 0.10*populationImpactScore) * shortageAreaBonus), 0, 100),
\* with the unrounded clamped policyImpactScore, evidenceStrengthScore =
\* round(evidenceQualityScore*20), populationImpactScore = round(populationScaleFactor*50);
\* the four weights sum to 1.
C9_FinalScoreFormula ==
  Ranked =>
    /\ QAdd(QAdd(baselineWeight, policyWeight), QAdd(evidenceWeight, populationWeight)) = I(1)
    /\ baselineWeight = Q(40, 100)
    /\ \A i \in DOMAIN rankings :
         rankings[i].totalConnections > 0 =>
           LET r == rankings[i]
               p == policyImpactOf(r.state)
               composite == QMul(I(weightedSumOf(r, p)), r.shortageAreaBonus)
           IN  /\ r.workforceImpactScore = Max(0, Min(MathRound(composite), 100))
               /\ QLe(I(0), p) /\ QLe(p, I(100))
               /\ r.evidenceStrengthScore = MathRound(QMul(r.evidenceQualityScore, I(20)))
               /\ r.populationImpactScore = MathRound(QMul(r.populationScaleFactor, I(50)))

\* a shortage-area state with two connections: its policy impact score is a
\* fraction, and so is the product of its rounded weighted sum and the bonus
C9_Witness ==
  /\ Ranked
  /\ \E i \in DOMAIN rankings :
       /\ rankings[i].totalConnections = 2
       /\ rankings[i].shortageAreaBonus = Q(115, 100)
       /\ policyImpactOf(rankings[i].state).d # 1
       /\ (weightedSumOf(rankings[i], policyImpactOf(rankings[i].state)) * 115) % 100 # 0
       /\ rankings[i].workforceImpactScore \in 1..99

stateConnections(state) ==
  {i \in DOMAIN connections : connections[i].stateJurisdiction = state}

\* the evidence quality of a connection that carries one
hasEvidenceIn(c, lo, hi) ==
  c.evidenceQuality # << >> /\ c.evidenceQuality[1] >= lo /\ c.evidenceQuality[1] <= hi

\* the evidence quality, 5 when the connection carries none (or 0)
evidenceOrMidpoint(c) ==
  IF c.evidenceQuality = << >> \/ c.evidenceQuality[1] = 0 THEN 5 ELSE c.evidenceQuality[1]

RECURSIVE relevanceSum(_, _)
relevanceSum(state, n) ==
  IF n = 0 THEN 0
  ELSE relevanceSum(state, n - 1)
       + (IF connections[n].stateJurisdiction # state THEN 0
          ELSE IF connections[n].workforceRelevance = << >> THEN 5
          ELSE connections[n].workforceRelevance[1])

\* the counts of a ranking that do not depend on the evidence quality
plainCountsMatch(r) ==
  LET mine == stateConnections(r.state)
  IN  /\ r.totalConnections = Cardinality(mine)
      /\ r.positiveConnections =
           Cardinality({i \in mine : connections[i].connectionType = "POSITIVE"})
      /\ r.negativeConnections =
           Cardinality({i \in mine : connections[i].connectionType = "NEGATIVE"})
      /\ r.policies = Cardinality({connections[i].policyId : i \in mine})
      /\ r.researchPapers = Cardinality({connections[i].paperId : i \in mine})
      /\ r.averageWorkforceRelevance
           = Q(relevanceSum(r.state, Len(connections)), Cardinality(mine))

\* C10 as stated: the raw counts equal a fold over the state's connections, the
\* evidence tiers counting the connections with evidence quality >= 8, 5..7, < 5.
C10_CountsAsStated ==
  Ranked =>
    \A k \in DOMAIN rankings :
      rankings[k].totalConnections > 0 =>
        LET r == rankings[k]
            mine == stateConnections(r.state)
        IN  /\ plainCountsMatch(r)
            /\ r.strongEvidence =
                 Cardinality({i \in mine : hasEvidenceIn(connections[i], 8, 10)})
            /\ r.moderateEvidence =
                 Cardinality({i \in mine : hasEvidenceIn(connections[i], 5, 7)})
            /\ r.weakEvidence =
                 Cardinality({i \in mine : hasEvidenceIn(connections[i], 1, 4)})

\* C10, amended: as stated, except that a connection without an evidence quality
\* (or with 0) is counted as moderate evidence, its quality being taken as 5.
C10_Counts ==
  Ranked =>
    \A k \in DOMAIN rankings :
      rankings[k].totalConnections > 0 =>
        LET r == rankings[k]
            mine == stateConnections(r.state)
        IN  /\ plainCountsMatch(r)
            /\ r.strongEvidence =
                 Cardinality({i \in mine : evidenceOrMidpoint(connections[i]) >= 8})
            /\ r.moderateEvidence =
                 Cardinality({i \in mine : evidenceOrMidpoint(connections[i]) \in 5..7})
            /\ r.weakEvidence =
                 Cardinality({i \in mine : evidenceOrMidpoint(connections[i]) < 5})

\* a state ranked from a NEUTRAL connection without evidence quality and without
\* workforce relevance, next to a connection with evidence quality 8
C10_Witness ==
  /\ Ranked
  /\ \E i, j \in DOMAIN connections :
       /\ connections[i].stateJurisdiction = connections[j].stateJurisdiction
       /\ connections[i].connectionType = "NEUTRAL"
       /\ connections[i].evidenceQuality = << >>
       /\ connections[i].workforceRelevance = << >>
       /\ connections[j].evidenceQuality = <<8>>
       /\ \E k \in rankingsOf(connections[i].stateJurisdiction) :
            rankings[k].moderateEvidence = 1 /\ rankings[k].strongEvidence = 1

RECURSIVE strengthSum(_, _)
strengthSum(state, n) ==
  IF n = 0 THEN 0
  ELSE strengthSum(state, n - 1)
       + (IF connections[n].stateJurisdiction = state THEN connections[n].strengthScore ELSE 0)

\* the four averages of a ranking are 0
zeroAverages(r) ==
  /\ r.averageStrength = I(0)
  /\ r.averageWorkforceRelevance = I(0)
  /\ r.positiveConnectionRate = I(0)
  /\ r.evidenceQualityScore = I(0)

\* C11: for every ranking with totalConnections > 0, averageStrength = (sum of the
\* strength scores)/totalConnections, averageWorkforceRelevance = (sum of the relevance
\* values)/totalConnections and positiveConnectionRate = positiveConnections /
\* totalConnections; with totalConnections = 0 the three averages and
\* evidenceQualityScore are 0, in a returned ranking and in the ranking computed from
\* an accumulator that has counted nothing.
C11_Averages ==
  Ranked =>
    /\ \A k \in DOMAIN rankings :
         LET r == rankings[k]
         IN  IF r.totalConnections > 0
             THEN /\ r.totalConnections = Cardinality(stateConnections(r.state))
                  /\ r.averageStrength.n * r.totalConnections
                       = strengthSum(r.state, Len(connections)) * r.averageStrength.d
                  /\ r.averageWorkforceRelevance.n * r.totalConnections
                       = relevanceSum(r.state, Len(connections)) * r.averageWorkforceRelevance.d
                  /\ r.positiveConnectionRate.n * r.totalConnections
                       = r.positiveConnections * r.positiveConnectionRate.d
             ELSE zeroAverages(r)
    /\ \A s \in baselineStates :
         zeroAverages(calculateStateRankingFromScore(newAccumulator(s), policies,
                                                     buildBaselineLookup(baselineData)))

\* a state with two connections of strength 2 and 9 (average 5.5), one of them
\* positive, next to a ranking without connections
C11_Witness ==
  /\ Ranked
  /\ \E i, j \in DOMAIN rankings :
       /\ rankings[i].totalConnections = 2
       /\ rankings[i].averageStrength = Q(11, 2)
       /\ rankings[i].positiveConnectionRate = Q(1, 2)
       /\ rankings[j].totalConnections = 0

\* the key sortStateRankings has sorted by
effectiveKey == IF sortBy = << >> THEN "score" ELSE sortBy[1]

\* the UTF-16 code unit of a letter
charCodeOf(c) == (IF isUpperCase(c) THEN 64 ELSE 96) + letterOf(c)

\* case-sensitive lexicographic comparison of two state names: -1, 0 or 1
codeUnitCompare(a, b) ==
  compareKeys([i \in DOMAIN stateCharacters(a) |-> charCodeOf(stateCharacters(a)[i])],
              [i \in DOMAIN stateCharacters(b) |-> charCodeOf(stateCharacters(b)[i])])

\* sortedRankings holds the rankings of the input list, each once
sortedIsPermutation ==
  /\ Len(sortedRankings) = Len(rankings)
  /\ \A i \in DOMAIN rankings : \E j \in DOMAIN sortedRankings : sortedRankings[j] = rankings[i]

\* a may stand directly before b under a numeric key
numericOrder(a, b) ==
  CASE effectiveKey = "connections" -> a.totalConnections >= b.totalConnections
    [] effectiveKey = "policies" -> a.policies >= b.policies
    [] OTHER -> a.workforceImpactScore >= b.workforceImpactScore

\* C12 as stated: the sorted list is the input list ordered by the key, descending
\* for 'score' (also when no key is given), 'connections' and 'policies', and for
\* 'alpha' in case-sensitive lexicographic ascending order of the state names.
C12_SortedAsStated ==
  pc = "sorted" =>
    /\ sortedIsPermutation
    /\ \A i \in 1..(Len(sortedRankings) - 1) :
         IF effectiveKey = "alpha"
         THEN codeUnitCompare(sortedRankings[i].state, sortedRankings[i + 1].state) <= 0
         ELSE numericOrder(sortedRankings[i], sortedRankings[i + 1])

\* C12, amended: as stated, except that 'alpha' orders the state names by
\* localeCompare: alphabetically without regard to case, and names that differ only
\* in case with the lower-case spelling first.
C12_SortedByKey ==
  pc = "sorted" =>
    /\ sortedIsPermutation
    /\ \A i \in 1..(Len(sortedRankings) - 1) :
         IF effectiveKey = "alpha"
         THEN LET a == stateCharacters(sortedRankings[i].state)
                  b == stateCharacters(sortedRankings[i + 1].state)
              IN  \/ compareKeys(primaryKey(a), primaryKey(b)) < 0
                  \/ /\ primaryKey(a) = primaryKey(b)
                     /\ compareKeys(tertiaryKey(a), tertiaryKey(b)) <= 0
         ELSE numericOrder(sortedRankings[i], sortedRankings[i + 1])

\* the 'alpha' sort has moved "Texas" in front of "TEXAS", and "OHIO" in front of both
C12_Witness ==
  /\ pc = "sorted"
  /\ sortBy = <<"alpha">>
  /\ Len(rankings) = 3
  /\ rankings[1].state = "TEXAS"
  /\ [i \in 1..3 |-> sortedRankings[i].state] = <<"OHIO", "Texas", "TEXAS">>

RECURSIVE scoreSum(_)
scoreSum(n) == IF n = 0 THEN 0 ELSE scoreSum(n - 1) + rankings[n].workforceImpactScore

GradeLetters == {"A+", "A", "A-", "B+", "B", "B-", "C+", "C", "C-", "D", "F"}

\* the sum of the values of a grade distribution
RECURSIVE distributionTotal(_, _)
distributionTotal(dist, letters) ==
  IF letters = {} THEN 0
  ELSE LET l == CHOOSE x \in letters : TRUE
       IN  dist[l] + distributionTotal(dist, letters \ {l})

\* C13: getRankingSummary returns totalStates = the list length, averageScore = the
\* mean of workforceImpactScore rounded to the nearest integer, highestScore and
\* lowestScore = the largest and the smallest score, statesWithData = the number of
\* rankings with totalConnections > 0 and gradeDistribution = the count of rankings per
\* grade letter that occurs, its values summing to totalStates; for the empty list
\* every number is 0 and gradeDistribution is empty.
C13_Summary ==
  pc = "summarized" =>
    LET s == summary[1]
        n == Len(rankings)
    IN  IF n = 0
        THEN s = [totalStates |-> 0, averageScore |-> 0, highestScore |-> 0, lowestScore |-> 0,
                  statesWithData |-> 0, gradeDistribution |-> << >>]
        ELSE /\ s.totalStates = n
             /\ 2 * n * s.averageScore <= 2 * scoreSum(n) + n
             /\ 2 * scoreSum(n) + n < 2 * n * (s.averageScore + 1)
             /\ \E i \in DOMAIN rankings : rankings[i].workforceImpactScore = s.highestScore
             /\ \E i \in DOMAIN rankings : rankings[i].workforceImpactScore = s.lowestScore
             /\ \A i \in DOMAIN rankings :
                  /\ rankings[i].workforceImpactScore <= s.highestScore
                  /\ rankings[i].workforceImpactScore >= s.lowestScore
             /\ s.statesWithData
                  = Cardinality({i \in DOMAIN rankings : rankings[i].totalConnections > 0})
             /\ DOMAIN s.gradeDistribution \subseteq GradeLetters
             /\ \A l \in GradeLetters :
                  LET count == Cardinality({i \in DOMAIN rankings : rankings[i].grade.letter = l})
                  IN  IF count = 0 THEN l \notin DOMAIN s.gradeDistribution
                      ELSE l \in DOMAIN s.gradeDistribution /\ s.gradeDistribution[l] = count
             /\ distributionTotal(s.gradeDistribution, DOMAIN s.gradeDistribution) = n

\* a summary of four rankings, two of them without connections, over three grades,
\* whose mean score is not an integer
C13_Witness ==
  /\ pc = "summarized"
  /\ Len(rankings) = 4
  /\ summary[1].statesWithData = 2
  /\ summary[1].highestScore > summary[1].lowestScore
  /\ scoreSum(4) % 4 # 0
  /\ Cardinality(DOMAIN summary[1].gradeDistribution) >= 2

\* the reported confidence (a percentage) and uncertainty for n data points
confidenceAt(n) == MathRound(QMul(confidenceLevelOf(n, 3), I(100)))
uncertaintyAt(n) == uncertaintyRangeOf(confidenceLevelOf(n, 3))

\* C15: confidenceLevel never decreases and uncertaintyRange never increases as
\* dataPointsCount grows: a ranking's values bound those of every smaller count and
\* of every ranking of the list with fewer data points; from 3 data points on the
\* confidence is 100 and the uncertainty 0.
C15_ConfidenceMonotone ==
  Ranked =>
    \A i \in DOMAIN rankings :
      rankings[i].totalConnections > 0 =>
        LET r == rankings[i]
        IN  /\ r.confidenceLevel = confidenceAt(r.dataPointsCount)
            /\ r.uncertaintyRange = uncertaintyAt(r.dataPointsCount)
            /\ \A n \in 0..r.dataPointsCount :
                 confidenceAt(n) <= r.confidenceLevel /\ uncertaintyAt(n) >= r.uncertaintyRange
            /\ \A j \in DOMAIN rankings :
                 (rankings[j].totalConnections > 0
                  /\ rankings[j].dataPointsCount <= r.dataPointsCount)
                 => /\ rankings[j].confidenceLevel <= r.confidenceLevel
                    /\ rankings[j].uncertaintyRange >= r.uncertaintyRange
            /\ r.dataPointsCount >= 3 => (r.confidenceLevel = 100 /\ r.uncertaintyRange = 0)

\* a ranking with two data points (confidence 67, uncertainty 5) next to one with
\* three (confidence 100, uncertainty 0)
C15_Witness ==
  /\ Ranked
  /\ \E i, j \in DOMAIN rankings :
       /\ rankings[i].totalConnections > 0 /\ rankings[j].totalConnections > 0
       /\ rankings[i].dataPointsCount = 2 /\ rankings[j].dataPointsCount = 3
       /\ rankings[i].confidenceLevel = 67 /\ rankings[j].confidenceLevel = 100
       /\ rankings[i].uncertaintyRange = 5 /\ rankings[j].uncertaintyRange = 0

API_ERROR ==
  <<"L","e","g","i","S","c","a","n"," ","A","P","I"," ","e","r","r","o",
    "r">>

startsWith(message, prefix) ==
  Len(message) >= Len(prefix) /\ SubSeq(message, 1, Len(prefix)) = prefix

\* C16: whenever the body of the answer has status 'ERROR', searchLegiScanBills
\* rejects with an error whose message begins 'LegiScan API error', whatever the
\* alert message is; it does not resolve.
C16_ApiErrorRejects ==
  (pc = "settled" /\ body # << >> /\ body[1].status = "ERROR") =>
    /\ searchResult[1].kind = "rejected"
    /\ startsWith(searchResult[1].message, API_ERROR)

\* the requests made, in order: the API itself, then the proxies of the list
endpointOrder == <<"api.legiscan.com">> \o CORS_PROXIES

\* C17: with a non-empty key, when the direct request and every proxy request fail
\* with a network error the search resolves to the empty list; the requests go to
\* the API first and then to the proxies in list order, and nothing is requested
\* after the first ok response.
C17_NetworkFailureYieldsEmpty ==
  /\ (/\ pc = "settled"
      /\ apiKey # ""
      /\ Len(fetchLog) = Len(endpointOrder)
      /\ \A k \in DOMAIN fetchLog : fetchLog[k].reply.kind = "error")
     => searchResult = <<Resolved(<< >>)>>
  /\ Len(fetchLog) <= Len(endpointOrder)
  /\ \A k \in DOMAIN fetchLog :
       /\ fetchLog[k].endpoint = endpointOrder[k]
       /\ k < Len(fetchLog) => ~succeeded(fetchLog[k].reply)

\* the baseline record the lookup holds for a state that has one
recordOf(state) == buildBaselineLookup(baselineData)[state]

\* C18: for a state with connections, the baseline score of the composite (reported
\* as baselineWorkforceScore) is the baselineWorkforceScore of the state's baseline
\* record whenever there is one, for every value 0..100, and 50 only when the state
\* has no record.
C18_BaselineScoreUsed ==
  Ranked =>
    \A i \in DOMAIN rankings :
      rankings[i].totalConnections > 0 =>
        LET r == rankings[i]
        IN  /\ r.workforceSupplyScore = r.baselineWorkforceScore
            /\ IF r.state \in baselineStates
               THEN (QLe(I(0), recordOf(r.state).baselineWorkforceScore)
                     /\ QLe(recordOf(r.state).baselineWorkforceScore, I(100)))
                    => r.baselineWorkforceScore = recordOf(r.state).baselineWorkforceScore
               ELSE r.baselineWorkforceScore = I(50)

\* C19: for a state with connections, shortageAreaBonus is 1.15 exactly when the
\* state has a baseline record whose physician density is present and below 2.5, a
\* density of 0 included, and 1.0 otherwise, so also for a state without a record.
C19_ShortageBonus ==
  Ranked =>
    \A i \in DOMAIN rankings :
      rankings[i].totalConnections > 0 =>
        LET r == rankings[i]
            shortage == /\ r.state \in baselineStates
                        /\ recordOf(r.state).physicianDensity # << >>
                        /\ QLt(recordOf(r.state).physicianDensity[1], Q(25, 10))
        IN  r.shortageAreaBonus = IF shortage THEN Q(115, 100) ELSE I(1)

\* the place of a state in the construction order: the states of the connections
\* list by first appearance, then the other states of the baseline list
constructionIndex(state) ==
  IF state \in connectionStates
  THEN CHOOSE k \in DOMAIN connections :
         /\ connections[k].stateJurisdiction = state
         /\ \A j \in 1..(k - 1) : connections[j].stateJurisdiction # state
  ELSE Len(connections)
       + (CHOOSE k \in DOMAIN baselineData :
            /\ baselineData[k].stateName = state
            /\ \A j \in 1..(k - 1) : baselineData[j].stateName # state)

\* C20: rankings with equal workforceImpactScore are returned in construction order:
\* states with connections in the order of their first appearance in the connections
\* list, then baseline-only states in the order of the baseline list.
C20_TiesInConstructionOrder ==
  Ranked =>
    \A i, j \in DOMAIN rankings :
      (i < j /\ rankings[i].workforceImpactScore = rankings[j].workforceImpactScore)
      => constructionIndex(rankings[i].state) < constructionIndex(rankings[j].state)

\* four rankings with one score: two states with connections, then two baseline-only
\* states, each pair in the order of its list
C20_Witness ==
  /\ Ranked
  /\ Len(rankings) = 4
  /\ \A i \in DOMAIN rankings : rankings[i].workforceImpactScore = 54
  /\ [i \in 1..4 |-> rankings[i].state] = <<"Texas", "TEXAS", "OHIO", "IOWA">>
  /\ [i \in 1..2 |-> connections[i].stateJurisdiction] = <<"Texas", "TEXAS">>
  /\ [i \in 1..2 |-> baselineData[i].stateName] = <<"OHIO", "IOWA">>

ENACTED_UPPER == <<"E","N","A","C","T","E","D">>

\* the policies of a state, by position in the policies list
statePolicyIndices(state) == {k \in DOMAIN policies : policies[k].jurisdiction = state}

\* word occurs in str when upper and lower case are not told apart
containsIgnoringCase(str, word) ==
  \E i \in 0..(Len(str) - Len(word)) :
    \A k \in DOMAIN word : toLowerCaseChar(str[i + k]) = word[k]

\* the policy carries a status that names an implemented stage
statusImplemented(p) ==
  /\ p.status # << >>
  /\ \E word \in {ENACTED, SIGNED, EFFECTIVE} : containsIgnoringCase(p.status[1], word)

\* C21: implementationRate is the fraction of the policies whose jurisdiction is exactly
\* the state and whose status contains 'enacted', 'signed' or 'effective' in any case
\* (no status: not implemented), over 1 when the state has no policies; it is reported
\* as a rounded percentage; implementationStatusMultiplier = 0.7 + 0.6*implementationRate
\* lies in [0.7, 1.3] and is 0.7 for a state without policies.
C21_ImplementationRate ==
  Ranked =>
    \A i \in DOMAIN rankings :
      rankings[i].totalConnections > 0 =>
        LET r == rankings[i]
            mine == statePolicyIndices(r.state)
            implemented == Cardinality({k \in mine : statusImplemented(policies[k])})
            total == IF mine = {} THEN 1 ELSE Cardinality(mine)
        IN  /\ r.implementationRate = MathRound(Q(100 * implemented, total))
            /\ r.implementationStatusMultiplier = Q(7 * total + 6 * implemented, 10 * total)
            /\ QLe(Q(7, 10), r.implementationStatusMultiplier)
            /\ QLe(r.implementationStatusMultiplier, Q(13, 10))
            /\ mine = {} => r.implementationStatusMultiplier = Q(7, 10)

\* TEXAS has an "ENACTED" policy and one without status, next to an "Effective" policy
\* of "Texas": its rate is one half and its multiplier 1.0
C21_Witness ==
  /\ Ranked
  /\ \E a, b \in DOMAIN policies :
       /\ policies[a].jurisdiction = "TEXAS" /\ policies[a].status = <<ENACTED_UPPER>>
       /\ policies[b].jurisdiction = "TEXAS" /\ policies[b].status = << >>
  /\ \E i \in DOMAIN rankings :
       /\ rankings[i].state = "TEXAS"
       /\ rankings[i].implementationRate = 50
       /\ rankings[i].implementationStatusMultiplier = I(1)

\* the sum of the populations of the state's policies among the first n policies,
\* 100,000 standing for a policy that carries none
RECURSIVE populationSum(_, _)
populationSum(state, n) ==
  IF n = 0 THEN 0
  ELSE populationSum(state, n - 1)
       + (IF policies[n].jurisdiction # state THEN 0
          ELSE IF policies[n].estimatedPopulationAffected = << >> THEN 100000
          ELSE policies[n].estimatedPopulationAffected[1])

\* C22: averagePopulationAffected is the mean of estimatedPopulationAffected over the
\* state's policies, 100,000 standing in only for a policy without a value, and is
\* 100,000 for a state without policies; populationScaleFactor =
\* min(averagePopulationAffected / 500,000, 2.0), at most 2.0, and 0.2 without policies.
C22_PopulationScale ==
  Ranked =>
    \A i \in DOMAIN rankings :
      rankings[i].totalConnections > 0 =>
        LET r == rankings[i]
            mine == statePolicyIndices(r.state)
        IN  /\ r.averagePopulationAffected
                 = IF mine = {} THEN I(100000)
                   ELSE Q(populationSum(r.state, Len(policies)), Cardinality(mine))
            /\ r.populationScaleFactor
                 = QMin(QDiv(r.averagePopulationAffected, I(500000)), I(2))
            /\ QLe(r.populationScaleFactor, I(2))
            /\ mine = {} => r.populationScaleFactor = Q(2, 10)

\* 50 + 25*(positiveRate - negativeRate) + 3*(averageStrength - 5) + 3*(averageRelevance - 5)
\* + 5*(evidenceQualityScore - 1.5) + 20*(implementationStatusMultiplier - 1)
\* + 10*(populationScaleFactor - 1), from the fields of a ranking
impactSumOf(r) ==
  LET negativeRate == Q(r.negativeConnections, r.totalConnections)
      terms == <<I(50),
                 QMul(I(25), QSub(r.positiveConnectionRate, negativeRate)),
                 QMul(I(3), QSub(r.averageStrength, I(5))),
                 QMul(I(3), QSub(r.averageWorkforceRelevance, I(5))),
                 QMul(I(5), QSub(r.evidenceQualityScore, Q(15, 10))),
                 QMul(I(20), QSub(r.implementationStatusMultiplier, I(1))),
                 QMul(I(10), QSub(r.populationScaleFactor, I(1)))>>
  IN  QAdd(QAdd(QAdd(terms[1], terms[2]), QAdd(terms[3], terms[4])),
           QAdd(QAdd(terms[5], terms[6]), terms[7]))

\* C24: for a state with at least one connection the policy impact score is the sum
\* of 50 and the six bonuses, clamped into [0, 100]; the reported policyImpactScore is
\* its rounding, within [0, 100].
C24_PolicyImpact ==
  Ranked =>
    \A i \in DOMAIN rankings :
      rankings[i].totalConnections > 0 =>
        LET r == rankings[i]
            raw == impactSumOf(r)
            clamped == IF QLt(raw, I(0)) THEN I(0) ELSE IF QLt(I(100), raw) THEN I(100) ELSE raw
        IN  /\ r.policyImpactScore = MathRound(clamped)
            /\ r.policyImpactScore \in 0..100
            /\ policyImpactOf(r.state) = clamped

\* one state whose sum exceeds 100 and is reported as 100, next to one whose sum lies
\* inside the range
C24_Witness ==
  /\ Ranked
  /\ \E i, j \in DOMAIN rankings :
       /\ rankings[i].totalConnections > 0 /\ rankings[j].totalConnections > 0
       /\ QLt(I(100), impactSumOf(rankings[i])) /\ rankings[i].policyImpactScore = 100
       /\ QLt(I(0), impactSumOf(rankings[j])) /\ QLt(impactSumOf(rankings[j]), I(100))

papersOf(state) == {connections[i].paperId : i \in stateConnections(state)}

\* C25: a connection-based ranking has dataPointsCount = totalConnections + (1 when
\* the state has a baseline record) + distinct papers; its flag is INSUFFICIENT_DATA
\* below 3 data points, LIMITED_DATA from 3 to 5, RELIABLE_DATA from 6 on; and its
\* uncertaintyRange is non-zero only with INSUFFICIENT_DATA.
C25_DataQuality ==
  Ranked =>
    \A i \in DOMAIN rankings :
      rankings[i].totalConnections > 0 =>
        LET r == rankings[i]
            n == Cardinality(stateConnections(r.state))
                 + (IF r.state \in baselineStates THEN 1 ELSE 0)
                 + Cardinality(papersOf(r.state))
        IN  /\ r.totalConnections = Cardinality(stateConnections(r.state))
            /\ r.researchPapers = Cardinality(papersOf(r.state))
            /\ r.dataPointsCount = n
            /\ n < 3 => r.dataQualityFlag = "INSUFFICIENT_DATA"
            /\ (3 <= n /\ n < 6) => r.dataQualityFlag = "LIMITED_DATA"
            /\ n >= 6 => r.dataQualityFlag = "RELIABLE_DATA"
            /\ r.uncertaintyRange # 0 => r.dataQualityFlag = "INSUFFICIENT_DATA"

\* a state with exactly six data points (three connections, two papers, a baseline
\* record), flagged reliable
C25_Witness ==
  /\ Ranked
  /\ \E i \in DOMAIN rankings :
       /\ rankings[i].totalConnections = 3
       /\ rankings[i].researchPapers = 2
       /\ rankings[i].hasBaselineData
       /\ rankings[i].dataPointsCount = 6
       /\ rankings[i].dataQualityFlag = "RELIABLE_DATA"
       /\ rankings[i].uncertaintyRange = 0

\* C26: a connection-based ranking has scoreRangeLow = max(0, score - uncertaintyRange)
\* and scoreRangeHigh = min(100, score + uncertaintyRange), hence
\* 0 <= scoreRangeLow <= workforceImpactScore <= scoreRangeHigh <= 100.
C26_ScoreRange ==
  Ranked =>
    \A i \in DOMAIN rankings :
      rankings[i].totalConnections > 0 =>
        LET r == rankings[i]
            below == r.workforceImpactScore - r.uncertaintyRange
            above == r.workforceImpactScore + r.uncertaintyRange
        IN  /\ r.scoreRangeLow = (IF below < 0 THEN 0 ELSE below)
            /\ r.scoreRangeHigh = (IF above > 100 THEN 100 ELSE above)
            /\ 0 <= r.scoreRangeLow
            /\ r.scoreRangeLow <= r.workforceImpactScore
            /\ r.workforceImpactScore <= r.scoreRangeHigh
            /\ r.scoreRangeHigh <= 100

\* a ranking with two data points: uncertainty 5 and a range ten points wide
C26_Witness ==
  /\ Ranked
  /\ \E i \in DOMAIN rankings :
       /\ rankings[i].totalConnections > 0
       /\ rankings[i].uncertaintyRange = 5
       /\ rankings[i].scoreRangeLow = rankings[i].workforceImpactScore - 5
       /\ rankings[i].scoreRangeHigh = rankings[i].workforceImpactScore + 5

\* how often a record occurs in a list
occurrences(list, r) == Cardinality({i \in DOMAIN list : list[i] = r})

connectionsOfState(state) == SelectSeq(connections, LAMBDA c : c.stateJurisdiction = state)
policiesOfState(state) == SelectSeq(policies, LAMBDA p : p.jurisdiction = state)
baselinesOfState(state) == SelectSeq(baselineData, LAMBDA b : b.stateName = state)

\* the rankings calculated from the data of one state alone
rankingsAlone(state) ==
  calculateStateRankings(connectionsOfState(state), policiesOfState(state),
                         baselinesOfState(state))

\* C28: the ranking record of a state depends only on the connections, policies and
\* baseline records of that state: it equals, field by field, the one record calculated
\* after the data of every other state has been removed.
C28_StateIndependence ==
  Ranked =>
    \A i \in DOMAIN rankings :
      /\ Len(rankingsAlone(rankings[i].state)) = 1
      /\ rankingsAlone(rankings[i].state)[1] = rankings[i]

\* a connection-based ranking of OHIO calculated among connections, policies and
\* baseline records of TEXAS
C28_Witness ==
  /\ Ranked
  /\ \E i \in DOMAIN rankings :
       rankings[i].state = "OHIO" /\ rankings[i].totalConnections > 0
  /\ \E i \in DOMAIN connections : connections[i].stateJurisdiction = "TEXAS"
  /\ \E i \in DOMAIN policies : policies[i].jurisdiction = "TEXAS"
  /\ \E i \in DOMAIN baselineData : baselineData[i].stateName = "TEXAS"

\* a list read in the order f
reordered(list, f) == [i \in DOMAIN list |-> list[f[i]]]

\* every ordering of a list
orderingsOf(list) == {reordered(list, f) : f \in Permutations(DOMAIN list)}

recordsOf(list) == {list[i] : i \in DOMAIN list}

scoresDescend(list) ==
  \A i \in DOMAIN list : \A j \in DOMAIN list :
    i < j => list[i].workforceImpactScore >= list[j].workforceImpactScore

\* C29: for every ordering of the connections and every ordering of the policies,
\* calculateStateRankings returns the same set of ranking records, again in descending
\* order of score, so that only states of equal score can change places.
C29_OrderIndependence ==
  Ranked =>
    /\ \A cs \in orderingsOf(connections) :
         LET other == calculateStateRankings(cs, policies, baselineData)
         IN  /\ recordsOf(other) = recordsOf(rankings)
             /\ Len(other) = Len(rankings)
             /\ scoresDescend(other)
    /\ \A ps \in orderingsOf(policies) :
         LET other == calculateStateRankings(connections, ps, baselineData)
         IN  /\ recordsOf(other) = recordsOf(rankings)
             /\ Len(other) = Len(rankings)
             /\ scoresDescend(other)

\* two different connections of one state and two policies of that state with
\* different populations, so that each list has a second ordering
C29_Witness ==
  /\ Ranked
  /\ Len(connections) = 2 /\ connections[1] # connections[2]
  /\ connections[1].stateJurisdiction = connections[2].stateJurisdiction
  /\ Len(policies) = 2
  /\ policies[1].jurisdiction = connections[1].stateJurisdiction
  /\ policies[2].jurisdiction = connections[1].stateJurisdiction
  /\ OrDefault(policies[1].estimatedPopulationAffected, 100000)
       # OrDefault(policies[2].estimatedPopulationAffected, 100000)
  /\ \E i \in DOMAIN rankings : rankings[i].policies = 2

\* the positions of the baseline records of a state
baselineIndices(state) == {i \in DOMAIN baselineData : baselineData[i].stateName = state}

firstRecordOf(state) ==
  baselineData[CHOOSE i \in baselineIndices(state) : \A j \in baselineIndices(state) : i <= j]

lastRecordOf(state) ==
  baselineData[CHOOSE i \in baselineIndices(state) : \A j \in baselineIndices(state) : j <= i]

\* the rankings of a state calculated with one baseline record for it
rankingsWithRecord(state, record) ==
  recordsOf(SelectSeq(calculateStateRankings(connections, policies, <<record>>),
                      LAMBDA r : r.state = state))

\* C30: of several baseline records of one state, a state with connections is scored
\* from the last one, and a state without connections gets exactly one baseline-only
\* ranking, built from the first one.
C30_DuplicateBaselines ==
  Ranked =>
    \A state \in baselineStates :
      /\ Cardinality(rankingsOf(state)) = 1
      /\ \A i \in rankingsOf(state) :
           IF state \in connectionStates
           THEN /\ rankingsWithRecord(state, lastRecordOf(state)) = {rankings[i]}
                /\ rankings[i].hasBaselineData
                /\ rankings[i].baselineWorkforceScore
                     = baselineScoreOf(<<lastRecordOf(state)>>)
           ELSE /\ rankingsWithRecord(state, firstRecordOf(state)) = {rankings[i]}
                /\ rankings[i].totalConnections = 0
                /\ rankings[i].baselineWorkforceScore
                     = firstRecordOf(state).baselineWorkforceScore

\* TEXAS with connections and two baseline records of different scores, OHIO
\* without connections: TEXAS is rated from its second record
C30_Witness ==
  /\ Ranked
  /\ Cardinality(baselineIndices("TEXAS")) = 2
  /\ firstRecordOf("TEXAS") # lastRecordOf("TEXAS")
  /\ \E i \in DOMAIN rankings :
       /\ rankings[i].state = "TEXAS"
       /\ rankings[i].totalConnections > 0
       /\ rankings[i].baselineWorkforceScore
            = lastRecordOf("TEXAS").baselineWorkforceScore
       /\ rankings[i].baselineWorkforceScore
            # firstRecordOf("TEXAS").baselineWorkforceScore

====
